---- MODULE Spec2Model ----
(***************************************************************************)
(* Model of Project1/scripts/run.py: the benchmark orchestration script.   *)
(*                                                                         *)
(*   SpecCfg    set_cfg_value applied once and twice to bounded config     *)
(*              lines (text is a sequence of one-character strings).       *)
(*   SpecStats  analyze applied to bounded lists of numbers.               *)
(*   Spec       main: validation, the run loop, the master CSV, the        *)
(*              temporary directory, the analytics; one invocation, which  *)
(*              finds at --out no file or the file an earlier invocation   *)
(*              left there.                                                *)
(***************************************************************************)
EXTENDS Integers, Sequences, FiniteSets, TLC

VARIABLES
    \* ---- set_cfg_value harness
    cfg_pc, cfg_lines, cfg_key, cfg_value, cfg_out1, cfg_out2,
    \* ---- analyze harness
    st_pc, st_values, st_result,
    \* ---- main
    pc,            \* position in main
    exe_exists, cfg_exists, runs,   \* os.path.exists(exe), os.path.exists(cfg), args.runs
    run_id,        \* loop variable of main
    tmpdir,        \* names of the files in the temporary directory
    master,        \* the file at --out: [exists, rows]
    all_values,    \* main's all_values
    stats_all,     \* result of analyze(all_values)
    time_stats,    \* result of analyze_times_from_master(master_csv)
    exit_code,     \* process exit status, NoExit while running
    \* ---- history of the current invocation (not read by the program)
    master0,       \* the master file when the invocation started
    completed,     \* what read_fitness_csv returned, per completed run
    spawned,       \* run ids for which the external program was invoked
    written,       \* names of temporary files ever created
    last_run       \* what the external program did in the latest run

cfgVars  == <<cfg_pc, cfg_lines, cfg_key, cfg_value, cfg_out1, cfg_out2>>
statVars == <<st_pc, st_values, st_result>>
histVars == <<master0, completed, spawned, written, last_run>>
mainVars == <<pc, exe_exists, cfg_exists, runs, run_id, tmpdir, master,
              all_values, stats_all, time_stats, exit_code, histVars>>
vars     == <<cfgVars, statVars, mainVars>>

(***************************************************************************)
(* Bounds                                                                  *)
(***************************************************************************)
MaxLines == 2          \* config lines in an input of set_cfg_value
MaxN == 3              \* numbers in an input of analyze
MaxRuns == 2           \* largest --runs
MaxK == 2              \* rows in one result CSV

(***************************************************************************)
(* Text: a string is a sequence of one-character strings.                  *)
(***************************************************************************)
\* str.strip() removes whitespace; the alphabet's only whitespace is " "
IsSpace(c) == c = " "

RECURSIVE LStrip(_)
LStrip(s) == IF s = <<>> THEN s
             ELSE IF IsSpace(Head(s)) THEN LStrip(Tail(s)) ELSE s

RECURSIVE RStrip(_)
RStrip(s) == IF s = <<>> THEN s
             ELSE IF IsSpace(s[Len(s)]) THEN RStrip(SubSeq(s, 1, Len(s) - 1)) ELSE s

\* str.strip()
Strip(s) == RStrip(LStrip(s))

\* str.lower() on the alphabet
LowerChar(c) == IF c = "A" THEN "a" ELSE c
Lower(s) == [i \in 1..Len(s) |-> LowerChar(s[i])]

\* "=" in s
HasEq(s) == \E i \in 1..Len(s) : s[i] = "="

\* s.startswith("#")
StartsWithHash(s) == s # <<>> /\ s[1] = "#"

\* index of the first "=" ; s.split("=", 1) cuts there
FirstEq(s) == CHOOSE i \in 1..Len(s) : s[i] = "=" /\ \A j \in 1..(i - 1) : s[j] # "="
SplitKey(s) == SubSeq(s, 1, FirstEq(s) - 1)

\* the line is copied without being looked at: blank, comment, or no "="
Skipped(line) == LET stripped == Strip(line)
                 IN  stripped = <<>> \/ StartsWithHash(stripped) \/ ~HasEq(stripped)

\* mutant: the comparison forgets .lower() on the line's key
KeyMatchesCaseSensitive(k, key_lower) == Strip(k) = key_lower
\* k.strip().lower() == key_lower
KeyMatches(k, key_lower) == Lower(Strip(k)) = key_lower

\* mutant: the loop body forgets found = True
cfg_step_no_found(acc, line, key_lower, value) ==
    IF Skipped(line) THEN [out |-> Append(acc.out, line), found |-> acc.found]
    ELSE LET k == SplitKey(Strip(line))
         IN  IF KeyMatches(k, key_lower)
             THEN [out |-> Append(acc.out, Strip(k) \o <<"=">> \o value), found |-> acc.found]
             ELSE [out |-> Append(acc.out, line), found |-> acc.found]
\* one pass of the for loop of set_cfg_value
cfg_step(acc, line, key_lower, value) ==
    IF Skipped(line) THEN [out |-> Append(acc.out, line), found |-> acc.found]
    ELSE LET k == SplitKey(Strip(line))
         IN  IF KeyMatches(k, key_lower)
             THEN [out |-> Append(acc.out, Strip(k) \o <<"=">> \o value), found |-> TRUE]
             ELSE [out |-> Append(acc.out, line), found |-> acc.found]

RECURSIVE cfg_loop(_, _, _, _)
cfg_loop(acc, lines, key_lower, value) ==
    IF lines = <<>> THEN acc
    ELSE cfg_loop(cfg_step(acc, Head(lines), key_lower, value), Tail(lines), key_lower, value)

set_cfg_value(lines, key, value) ==
    LET r == cfg_loop([out |-> <<>>, found |-> FALSE], lines, Lower(key), value)
    IN  IF ~r.found THEN Append(r.out, key \o <<"=">> \o value) ELSE r.out

(***************************************************************************)
(* Inputs of set_cfg_value: every class of line the function tells apart   *)
(***************************************************************************)
LineSamples ==
    { <<>>,                                  \* empty line
      <<" ">>,                               \* blank line
      <<"#", "a", "=", "a">>,                \* comment that looks like a=a
      <<" ", "#">>,                          \* indented comment
      <<"a">>,                               \* no "="
      <<"a", "=", "a">>,                     \* a=a
      <<"A", "=", "a">>,                     \* A=a
      <<" ", "a", " ", "=", " ", "a", " ">>, \* padded  a = a
      <<"a", "a", "=", "a">>,                \* aa=a, another key
      <<"=", "a">>,                          \* empty key
      <<"a", "=", "a", "=", "#">> }          \* value holding "=" and "#"

KeySamples ==
    { <<"a">>, <<"A">>, <<"a", "a">>, <<>>,
      <<" ", "a">>, <<"a", " ">>, <<"#", "a">>, <<"a", "=", "a">> }

ValueSamples == { <<>>, <<"A">>, <<" ", "#">> }

RECURSIVE SeqsUpTo(_, _)
SeqsUpTo(S, n) ==
    IF n = 0 THEN { <<>> }
    ELSE LET shorter == SeqsUpTo(S, n - 1)
         IN  shorter \cup { Append(s, x) : s \in { t \in shorter : Len(t) = n - 1 }, x \in S }

(***************************************************************************)
(* Numbers: a float is held exactly, as a fraction <<numerator,            *)
(* denominator>> in lowest terms; a deviation is held as its square.       *)
(***************************************************************************)
RECURSIVE GCD(_, _)
GCD(a, b) == IF b = 0 THEN a ELSE GCD(b, a % b)

Abs(x) == IF x < 0 THEN -x ELSE x

Rat(n, d) == IF n = 0 THEN <<0, 1>>
             ELSE LET g == GCD(Abs(n), Abs(d)) IN <<n \div g, d \div g>>

Zero == Rat(0, 1)

RECURSIVE Sum(_)
Sum(s) == IF s = <<>> THEN 0 ELSE Head(s) + Sum(Tail(s))

SumSq(s) == Sum([i \in 1..Len(s) |-> s[i] * s[i]])

\* min(values), max(values)
SeqMin(s) == CHOOSE x \in { s[i] : i \in 1..Len(s) } : \A j \in 1..Len(s) : x <= s[j]
SeqMax(s) == CHOOSE x \in { s[i] : i \in 1..Len(s) } : \A j \in 1..Len(s) : x >= s[j]

\* statistics.fmean / statistics.mean
Mean(s) == Rat(Sum(s), Len(s))

\* statistics.pstdev, squared
PVariance(s) == Rat(Len(s) * SumSq(s) - Sum(s) * Sum(s), Len(s) * Len(s))

\* statistics.stdev, squared (two values or more)
Variance(s) == Rat(Len(s) * SumSq(s) - Sum(s) * Sum(s), Len(s) * (Len(s) - 1))

\* statistics.median
Median(s) == LET t == SortSeq(s, LAMBDA a, b : a < b)
                 n == Len(s)
             IN  IF n % 2 = 1 THEN Rat(t[(n + 1) \div 2], 1)
                 ELSE Rat(t[n \div 2] + t[n \div 2 + 1], 2)

\* statistics.stdev(values) if len(values) >= 2 else 0.0
sample_stdev(values) == IF Len(values) >= 2 THEN Variance(values) ELSE Zero

\* mutant: the operands of the subtraction are exchanged
stat_range_swapped(vmin, vmax) == vmin - vmax
\* "range": vmax - vmin
stat_range(vmin, vmax) == vmax - vmin

analyze(values) ==
    IF values = <<>> THEN [status |-> "ValueError"]
    ELSE [ status |-> "ok",
           count  |-> Len(values),
           mean   |-> Mean(values),
           pstdev |-> PVariance(values),
           stdev  |-> sample_stdev(values),
           min    |-> SeqMin(values),
           max    |-> SeqMax(values),
           range  |-> stat_range(SeqMin(values), SeqMax(values)),
           median |-> Median(values) ]

\* Inputs of analyze
NumberSamples == { -2, 0, 1, 3 }

(***************************************************************************)
(* CSV files. A cell is text: a number is written with ToString and read   *)
(* back with ParseNum; the empty cell is "".                               *)
(***************************************************************************)
NumRange == 0..9
FormatNum(n) == ToString(n)
\* int(cell) / float(cell) raise ValueError on text that is no number
IsNum(s) == \E n \in NumRange : ToString(n) = s
ParseNum(s) == CHOOSE n \in NumRange : ToString(n) = s

Blank == ""
FitnessSamples == { 1, 2 }
TimeSamples == { 5, 7 }

\* columns the external program is expected to write
Columns == { "experiment", "fitness", "eval_time_ms" }

\* header sets of a result CSV: complete, one column missing, or an empty file
HeaderSets == { Columns } \cup { Columns \ { c } : c \in Columns } \cup { {} }

FitnessCells == { Blank } \cup { FormatNum(f) : f \in FitnessSamples }
TimeCells == { FormatNum(t) : t \in TimeSamples }

\* the rows a file with header set h can hold: a row has a cell for each column
\* the header names (the experiment cell is never read and is left out)
ResultRows(h) ==
    IF { "fitness", "eval_time_ms" } \subseteq h
    THEN [ fitness : FitnessCells, eval_time_ms : TimeCells ]
    ELSE IF "fitness" \in h THEN [ fitness : FitnessCells ]
    ELSE IF "eval_time_ms" \in h THEN [ eval_time_ms : TimeCells ]
    ELSE { }

\* the file the external program leaves at the config's output path
NoCsv == [ exists |-> FALSE, headers |-> {}, rows |-> <<>> ]
EmptyCsv == [ exists |-> TRUE, headers |-> {}, rows |-> <<>> ]
ResultCsvs ==
    { NoCsv, EmptyCsv } \cup
    UNION { { [ exists |-> TRUE, headers |-> h, rows |-> r ] : r \in SeqsUpTo(ResultRows(h), MaxK) } :
            h \in HeaderSets \ { {} } }

\* a complete result file with one row
GoodCsv == [ exists |-> TRUE, headers |-> Columns,
             rows |-> << [ fitness |-> FormatNum(1), eval_time_ms |-> FormatNum(5) ] >> ]

\* what one invocation of the external program can do: exit 0 with any result
\* file, or fail (non-zero exit, timeout) with no file, an empty one or a good one
Outcomes ==
    { [ exit |-> "ok", csv |-> c ] : c \in ResultCsvs }
    \cup { [ exit |-> e, csv |-> c ] :
             e \in { "nonzero", "timeout" }, c \in { NoCsv, EmptyCsv, GoodCsv } }

\* mutant: the return code is not looked at
run_program_unchecked(outcome) ==
    IF outcome.exit = "timeout" THEN "TimeoutExpired" ELSE "ok"
\* subprocess.run(..., timeout=...) and the returncode test
run_program(outcome) ==
    IF outcome.exit = "timeout" THEN "TimeoutExpired"
    ELSE IF outcome.exit # "ok" THEN "RuntimeError"
    ELSE "ok"

\* the for loop of read_fitness_csv: rows with an empty fitness cell are skipped,
\* eval_time_ms is taken from the first row kept; acc.err when float() raised
RECURSIVE read_rows(_, _)
read_rows(acc, rows) ==
    IF rows = <<>> \/ acc.err THEN acc
    ELSE LET row == Head(rows)
         IN  IF row.fitness = Blank THEN read_rows(acc, Tail(rows))
             ELSE IF ~IsNum(row.fitness) \/ (acc.eval_time_ms = <<>> /\ ~IsNum(row.eval_time_ms))
             THEN [ acc EXCEPT !.err = TRUE ]
             ELSE read_rows(
                    [ fitness_values |-> Append(acc.fitness_values, ParseNum(row.fitness)),
                      eval_time_ms |-> IF acc.eval_time_ms = <<>>
                                       THEN <<ParseNum(row.eval_time_ms)>>
                                       ELSE acc.eval_time_ms,
                      err |-> FALSE ],
                    Tail(rows))

\* eval_time_ms is None is modelled by the empty tuple
read_fitness_csv(csv) ==
    IF ~csv.exists THEN [ status |-> "FileNotFoundError" ]
    ELSE IF "fitness" \notin csv.headers THEN [ status |-> "ValueError" ]
    ELSE IF "eval_time_ms" \notin csv.headers THEN [ status |-> "ValueError" ]
    ELSE LET r == read_rows([ fitness_values |-> <<>>, eval_time_ms |-> <<>>, err |-> FALSE ],
                            csv.rows)
         IN  IF r.err \/ r.eval_time_ms = <<>> THEN [ status |-> "ValueError" ]
             ELSE [ status |-> "ok",
                    fitness_values |-> r.fitness_values,
                    eval_time_ms |-> r.eval_time_ms[1] ]

\* ---- the master CSV
MasterHeader == << "run", "experiment", "fitness", "eval_time_ms" >>
NoFile == [ exists |-> FALSE, rows |-> <<>> ]

\* mutant: enumerate counts from 1
data_rows_from_one(run, fitness_values, eval_time) ==
    [ j \in 1..Len(fitness_values) |->
        << FormatNum(run), FormatNum(j), FormatNum(fitness_values[j]), FormatNum(eval_time) >> ]
\* for exp_idx, fit in enumerate(fitness_values): writer.writerow([...])
data_rows(run, fitness_values, eval_time) ==
    [ j \in 1..Len(fitness_values) |->
        << FormatNum(run), FormatNum(j - 1), FormatNum(fitness_values[j]), FormatNum(eval_time) >> ]

\* mutant: the file is opened with "w"
open_write(file) == <<>>
\* open(master_csv, "a"): writes go after what the file holds
open_append(file) == file.rows

\* mutant: the header is written by every append
append_run_to_master_header_always(file, run, fitness_values, eval_time) ==
    [ exists |-> TRUE,
      rows |-> open_append(file) \o << MasterHeader >> \o data_rows(run, fitness_values, eval_time) ]
append_run_to_master(file, run, fitness_values, eval_time) ==
    LET file_exists == file.exists
    IN  [ exists |-> TRUE,
          rows |-> open_append(file)
                   \o (IF ~file_exists THEN << MasterHeader >> ELSE <<>>)
                   \o data_rows(run, fitness_values, eval_time) ]

\* position of a column in the header row, 0 when absent (csv.DictReader)
ColumnOf(header, name) ==
    IF \E i \in 1..Len(header) : header[i] = name
    THEN CHOOSE i \in 1..Len(header) : header[i] = name
    ELSE 0

\* the for loop of analyze_times_from_master: the first row of each run id is kept.
\* acc.ids and acc.times are the dict's keys and values in insertion order;
\* acc.err when int() or float() raised
RECURSIVE times_loop(_, _, _, _)
times_loop(acc, rows, runCol, timeCol) ==
    IF rows = <<>> \/ acc.err THEN acc
    ELSE IF ~IsNum(Head(rows)[runCol]) THEN [ acc EXCEPT !.err = TRUE ]
    ELSE LET rid == ParseNum(Head(rows)[runCol])
         IN  IF \E i \in 1..Len(acc.ids) : acc.ids[i] = rid
             THEN times_loop(acc, Tail(rows), runCol, timeCol)
             ELSE IF ~IsNum(Head(rows)[timeCol]) THEN [ acc EXCEPT !.err = TRUE ]
             ELSE times_loop([ ids |-> Append(acc.ids, rid),
                               times |-> Append(acc.times, ParseNum(Head(rows)[timeCol])),
                               err |-> FALSE ],
                             Tail(rows), runCol, timeCol)

analyze_times_from_master(file) ==
    IF ~file.exists THEN [ status |-> "FileNotFoundError" ]
    ELSE LET header == IF file.rows = <<>> THEN <<>> ELSE Head(file.rows)
         IN  IF ColumnOf(header, "eval_time_ms") = 0 \/ ColumnOf(header, "run") = 0
             THEN [ status |-> "KeyError" ]
             ELSE LET acc == times_loop([ ids |-> <<>>, times |-> <<>>, err |-> FALSE ],
                                        Tail(file.rows),
                                        ColumnOf(header, "run"), ColumnOf(header, "eval_time_ms"))
                  IN  IF acc.err THEN [ status |-> "ValueError" ]
                      ELSE IF acc.times = <<>> THEN [ status |-> "StatisticsError" ]
                      ELSE [ status |-> "ok",
                             runs   |-> Len(acc.times),
                             avg_ms |-> Mean(acc.times),
                             min_ms |-> SeqMin(acc.times),
                             max_ms |-> SeqMax(acc.times) ]

(***************************************************************************)
(* main                                                                    *)
(***************************************************************************)
ExitOk == 0          \* return 0
ExitUsage == 2       \* return 2
ExitUncaught == 1    \* an exception leaves main through raise SystemExit(main())

Running == <<>>      \* exit_code while the process runs

NoStats == [ status |-> "none" ]
NoRun == [ run |-> 0 - 1, exit |-> "none", exists |-> FALSE, headers |-> {}, empty |-> TRUE ]

CfgFile(i) == [ kind |-> "cfg", run |-> i ]     \* run_<i>.cfg
CsvFile(i) == [ kind |-> "csv", run |-> i ]     \* run_<i>_fitness.csv

\* mutant: --runs is not validated
args_valid_runs_unchecked(exe, cfg, n) == exe /\ cfg
\* the three tests that return 2
args_valid(exe, cfg, n) == exe /\ cfg /\ ~(n <= 0)

\* mutant: the directory is made with mkdtemp and never removed
tmp_cleanup_leak(files) == files
\* leaving "with tempfile.TemporaryDirectory()", normally or by an exception
tmp_cleanup(files) == {}

cfgIdle  == /\ cfg_pc = "off" /\ cfg_lines = <<>> /\ cfg_key = <<>>
            /\ cfg_value = <<>> /\ cfg_out1 = <<>> /\ cfg_out2 = <<>>
statIdle == st_pc = "off" /\ st_values = <<>> /\ st_result = NoStats
mainIdleWith(file) ==
    /\ pc = "idle"
    /\ exe_exists = FALSE /\ cfg_exists = FALSE /\ runs = 0
    /\ run_id = 0 /\ tmpdir = {} /\ master = file
    /\ all_values = <<>> /\ stats_all = NoStats /\ time_stats = NoStats
    /\ exit_code = Running
    /\ master0 = file /\ completed = <<>> /\ spawned = <<>>
    /\ written = {} /\ last_run = NoRun
mainIdle == mainIdleWith(NoFile)

\* what can be at --out when the script starts: nothing, or the file an earlier
\* invocation of two runs (of two values and of one value) left
PriorMasters ==
    { NoFile,
      append_run_to_master(append_run_to_master(NoFile, 0, << 2, 1 >>, 5), 1, << 1 >>, 5) }

Init == (\E file \in PriorMasters : mainIdleWith(file)) /\ cfgIdle /\ statIdle

\* main up to the with statement: argument parsing and validation
Main_Start ==
    /\ pc = "idle"
    /\ \E e \in BOOLEAN, c \in BOOLEAN, n \in (0 - 1)..MaxRuns :
         /\ exe_exists' = e /\ cfg_exists' = c /\ runs' = n
         /\ IF args_valid(e, c, n)
            THEN pc' = "loop" /\ exit_code' = Running
            ELSE pc' = "done" /\ exit_code' = << ExitUsage >>
    /\ run_id' = 0
    /\ all_values' = <<>>
    /\ tmpdir' = {}
    /\ stats_all' = NoStats /\ time_stats' = NoStats
    /\ master0' = master /\ completed' = <<>> /\ spawned' = <<>>
    /\ written' = {} /\ last_run' = NoRun
    /\ UNCHANGED << master, cfgVars, statVars >>

\* the head of one loop pass: the run's config is written to the temporary directory
Main_WriteCfg ==
    /\ pc = "loop" /\ run_id < runs
    /\ tmpdir' = tmpdir \cup { CfgFile(run_id) }
    /\ written' = written \cup { CfgFile(run_id) }
    /\ pc' = "cfg"
    /\ UNCHANGED << exe_exists, cfg_exists, runs, run_id, master, all_values,
                    stats_all, time_stats, exit_code, master0, completed, spawned, last_run,
                    cfgVars, statVars >>

\* the rest of the loop pass: run_program, read_fitness_csv, append_run_to_master
Main_RunProgram ==
    /\ pc = "cfg"
    /\ \E o \in Outcomes :
         LET left == IF o.csv.exists THEN { CsvFile(run_id) } ELSE {}
             ran  == run_program(o)
             res  == read_fitness_csv(o.csv)
             ok   == ran = "ok" /\ res.status = "ok"
         IN  /\ spawned' = Append(spawned, run_id)
             /\ written' = written \cup left
             /\ last_run' = [ run |-> run_id, exit |-> o.exit, exists |-> o.csv.exists,
                              headers |-> o.csv.headers, empty |-> o.csv.rows = <<>> ]
             /\ IF ok
                THEN /\ master' = append_run_to_master(master, run_id, res.fitness_values,
                                                       res.eval_time_ms)
                     /\ all_values' = all_values \o res.fitness_values
                     /\ completed' = Append(completed,
                                            [ run |-> run_id, fitness_values |-> res.fitness_values,
                                              eval_time_ms |-> res.eval_time_ms ])
                     /\ run_id' = run_id + 1
                     /\ tmpdir' = tmpdir \cup left
                     /\ pc' = "loop"
                     /\ UNCHANGED exit_code
                ELSE /\ tmpdir' = tmp_cleanup(tmpdir \cup left)
                     /\ pc' = "done"
                     /\ exit_code' = << ExitUncaught >>
                     /\ UNCHANGED << master, all_values, completed, run_id >>
    /\ UNCHANGED << exe_exists, cfg_exists, runs, stats_all, time_stats, master0,
                    cfgVars, statVars >>

\* after the last pass: the with statement ends, then the two analytics
Main_Finish ==
    /\ pc = "loop" /\ ~(run_id < runs)
    /\ tmpdir' = tmp_cleanup(tmpdir)
    /\ LET sa == analyze(all_values)
           ts == IF sa.status = "ok" THEN analyze_times_from_master(master) ELSE NoStats
       IN  /\ stats_all' = sa
           /\ time_stats' = ts
           /\ exit_code' = IF sa.status = "ok" /\ ts.status = "ok"
                           THEN << ExitOk >> ELSE << ExitUncaught >>
    /\ pc' = "done"
    /\ UNCHANGED << exe_exists, cfg_exists, runs, run_id, master, all_values,
                    histVars, cfgVars, statVars >>

Next == Main_Start \/ Main_WriteCfg \/ Main_RunProgram \/ Main_Finish

Spec == Init /\ [][Next]_vars

(***************************************************************************)
(* set_cfg_value, called once and then again on its own result             *)
(***************************************************************************)
InitCfg ==
    /\ cfg_pc = "input"
    /\ cfg_lines \in SeqsUpTo(LineSamples, MaxLines)
    /\ cfg_key \in KeySamples
    /\ cfg_value \in ValueSamples
    /\ cfg_out1 = <<>> /\ cfg_out2 = <<>>
    /\ mainIdle /\ statIdle

CfgFirstCall ==
    /\ cfg_pc = "input"
    /\ cfg_out1' = set_cfg_value(cfg_lines, cfg_key, cfg_value)
    /\ cfg_pc' = "once"
    /\ UNCHANGED << cfg_lines, cfg_key, cfg_value, cfg_out2, statVars, mainVars >>

CfgSecondCall ==
    /\ cfg_pc = "once"
    /\ cfg_out2' = set_cfg_value(cfg_out1, cfg_key, cfg_value)
    /\ cfg_pc' = "twice"
    /\ UNCHANGED << cfg_lines, cfg_key, cfg_value, cfg_out1, statVars, mainVars >>

NextCfg == CfgFirstCall \/ CfgSecondCall

SpecCfg == InitCfg /\ [][NextCfg]_vars

(***************************************************************************)
(* analyze, called on a list of numbers                                    *)
(***************************************************************************)
InitStats ==
    /\ st_pc = "input"
    /\ st_values \in SeqsUpTo(NumberSamples, MaxN)
    /\ st_result = NoStats
    /\ mainIdle /\ cfgIdle

StatsCall ==
    /\ st_pc = "input"
    /\ st_result' = analyze(st_values)
    /\ st_pc' = "done"
    /\ UNCHANGED << st_values, cfgVars, mainVars >>

NextStats == StatsCall

SpecStats == InitStats /\ [][NextStats]_vars

(***************************************************************************)
(* Properties of set_cfg_value (under SpecCfg)                             *)
(***************************************************************************)
\* a line carries the key: it is a key=value line, neither blank nor a comment,
\* whose key text equals the key when case and surrounding blanks are ignored
CarriesKey(line, key) ==
    LET t == Strip(line)
    IN  /\ t # <<>> /\ t[1] # "#" /\ HasEq(t)
        /\ Lower(Strip(SplitKey(t))) = Lower(key)

BlankOrComment(line) == Strip(line) = <<>> \/ Strip(line)[1] = "#"

\* the line set_cfg_value writes in place of a line that carries the key
Rewritten(line, value) == Strip(SplitKey(Strip(line))) \o <<"=">> \o value

Carrying(lines, key) == { i \in 1..Len(lines) : CarriesKey(lines[i], key) }

\* a key that a key=value line can carry: no blanks around it, no "=", no leading "#"
WellFormedKey(key) ==
    /\ Strip(key) = key
    /\ \A i \in 1..Len(key) : key[i] # "="
    /\ (key = <<>> \/ key[1] # "#")

\* one call keeps the line count and every blank or comment line in place, and
\* appends exactly one line, key=value, when no line carries the key
C5_OneCallPreserves ==
    LET none == Carrying(cfg_lines, cfg_key) = {}
    IN  /\ Len(cfg_out1) = Len(cfg_lines) + (IF none THEN 1 ELSE 0)
        /\ \A i \in 1..Len(cfg_lines) :
              BlankOrComment(cfg_lines[i]) => cfg_out1[i] = cfg_lines[i]
        /\ none => cfg_out1[Len(cfg_out1)] = cfg_key \o <<"=">> \o cfg_value

\* C5 as stated: set_cfg_value is idempotent for every key (a second identical
\* call returns the first call's result), and one call preserves the line count
\* and the blank and comment lines, appending one line when no line carries the key
C5_IdempotentEveryKey ==
    cfg_pc = "twice" => (cfg_out2 = cfg_out1 /\ C5_OneCallPreserves)

\* C5 amended: the second identical call returns the first call's result whenever
\* the key is well formed (no surrounding blanks, no "=", no leading "#"); one call
\* preserves the line count and the blank and comment lines, appending one line
\* when no line carries the key
C5_IdempotentWellFormedKey ==
    cfg_pc = "twice" =>
        /\ WellFormedKey(cfg_key) => cfg_out2 = cfg_out1
        /\ C5_OneCallPreserves

\* C5 witness: a well-formed key carried by a line that the first call changed,
\* beside a comment line, after both calls
C5_Witness ==
    /\ cfg_pc = "twice"
    /\ WellFormedKey(cfg_key)
    /\ Carrying(cfg_lines, cfg_key) # {}
    /\ \E i \in 1..Len(cfg_lines) : BlankOrComment(cfg_lines[i])
    /\ cfg_out1 # cfg_lines

\* C6 as stated: only the first line that carries the key is rewritten to the new
\* value, every later line that carries it is kept verbatim, and key=value is
\* appended when no line carries it
C6_FirstMatchWins ==
    cfg_pc # "input" =>
        LET hit == Carrying(cfg_lines, cfg_key)
        IN  /\ \A i \in 1..Len(cfg_lines) :
                  IF i \in hit /\ \A j \in hit : i <= j
                  THEN cfg_out1[i] = Rewritten(cfg_lines[i], cfg_value)
                  ELSE cfg_out1[i] = cfg_lines[i]
            /\ IF hit = {}
               THEN cfg_out1 = Append(cfg_lines, cfg_key \o <<"=">> \o cfg_value)
               ELSE Len(cfg_out1) = Len(cfg_lines)

\* C6 amended: key matching is case-insensitive and every line that carries the
\* key is rewritten to the new value, every other line is kept verbatim, and
\* key=value is appended when no line carries it
C6_EveryMatchRewritten ==
    cfg_pc # "input" =>
        LET hit == Carrying(cfg_lines, cfg_key)
        IN  /\ \A i \in 1..Len(cfg_lines) :
                  IF i \in hit
                  THEN cfg_out1[i] = Rewritten(cfg_lines[i], cfg_value)
                  ELSE cfg_out1[i] = cfg_lines[i]
            /\ IF hit = {}
               THEN cfg_out1 = Append(cfg_lines, cfg_key \o <<"=">> \o cfg_value)
               ELSE Len(cfg_out1) = Len(cfg_lines)

\* C6 witness: two lines carry the key in different letter case and the call
\* changed the later one
C6_Witness ==
    /\ cfg_pc = "once"
    /\ \E i, j \in Carrying(cfg_lines, cfg_key) :
          /\ i < j
          /\ SplitKey(Strip(cfg_lines[i])) # SplitKey(Strip(cfg_lines[j]))
          /\ cfg_out1[j] # cfg_lines[j]

(***************************************************************************)
(* Properties of analyze (under SpecStats)                                 *)
(***************************************************************************)
\* C7 as stated: for every input list analyze returns range = max - min,
\* count = the input length, and stdev 0.0 when the input has fewer than 2 numbers
C7_EveryInput ==
    st_pc = "done" =>
        /\ st_result.status = "ok"
        /\ st_result.range = st_result.max - st_result.min
        /\ st_result.count = Len(st_values)
        /\ Len(st_values) < 2 => st_result.stdev = Zero

\* C7 amended: for every non-empty input list analyze returns range = max - min,
\* count = the input length, and stdev 0.0 when the input has exactly one number;
\* for the empty list it returns nothing and raises ValueError
C7_NonEmptyInput ==
    st_pc = "done" =>
        IF st_values = <<>>
        THEN st_result.status = "ValueError"
        ELSE /\ st_result.status = "ok"
             /\ st_result.range = st_result.max - st_result.min
             /\ st_result.count = Len(st_values)
             /\ Len(st_values) < 2 => st_result.stdev = Zero

\* C7 witness: analyze has returned for a list whose largest and smallest number differ
C7_Witness ==
    /\ st_pc = "done"
    /\ st_result.status = "ok"
    /\ st_result.count >= 2
    /\ st_result.range > 0

(***************************************************************************)
(* Properties of main (under Spec)                                         *)
(***************************************************************************)
IsPrefix(s, t) == Len(s) <= Len(t) /\ SubSeq(t, 1, Len(s)) = s

HeaderCount(file) ==
    Cardinality({ i \in 1..Len(file.rows) : file.rows[i] = MasterHeader })
DataCount(file) == Len(file.rows) - HeaderCount(file)

\* the data rows the current invocation has put after what the file held before
AppendedData ==
    LET all == SubSeq(master.rows, Len(master0.rows) + 1, Len(master.rows))
    IN  SelectSeq(all, LAMBDA row : row # MasterHeader)

\* every run of the invocation has succeeded and the script has ended
AllRunsSucceeded == pc = "done" /\ runs > 0 /\ Len(completed) = runs

\* every completed run produced K fitness values
Uniform(K) == \A r \in 1..Len(completed) : Len(completed[r].fitness_values) = K

\* C1 as stated: after an invocation with N > 0 runs that all succeed with K fitness
\* values each, the master CSV holds exactly one header row and N*K data rows
C1_ExactlyNK ==
    \A K \in 1..MaxK :
        (AllRunsSucceeded /\ Uniform(K)) =>
            (HeaderCount(master) = 1 /\ DataCount(master) = runs * K)

\* C1 amended: such an invocation appends exactly N*K data rows; when the master
\* CSV did not exist before, it then holds one header row and N*K data rows, and
\* when it existed, its earlier rows stay and no header row is added
C1_AppendsNK ==
    \A K \in 1..MaxK :
        (AllRunsSucceeded /\ Uniform(K)) =>
            /\ Len(AppendedData) = runs * K
            /\ DataCount(master) = DataCount(master0) + runs * K
            /\ IF master0.exists
               THEN HeaderCount(master) = HeaderCount(master0)
               ELSE HeaderCount(master) = 1 /\ DataCount(master) = runs * K

\* C1 witness: two runs of two values each have succeeded on a master CSV that
\* an earlier invocation left
C1_Witness ==
    /\ AllRunsSucceeded /\ runs = 2 /\ Uniform(2)
    /\ master0.exists /\ DataCount(master0) > 0

\* C2: no step of an invocation, on a fresh file or on the file an earlier
\* invocation left, shortens or rewrites the master CSV (what it held stays a
\* prefix of what it holds, and it is never removed), and a header row is added
\* only by a step that found the file missing
C2_AppendOnly ==
    [][ /\ IsPrefix(master.rows, master'.rows)
        /\ master.exists => master'.exists
        /\ HeaderCount(master') > HeaderCount(master) => ~master.exists ]_vars

\* C2 witness: the invocation has appended to the file an earlier one left
C2_Witness ==
    /\ pc = "done"
    /\ master0.exists
    /\ Len(master.rows) > Len(master0.rows)

\* C3: with a missing exe, a missing config or --runs <= 0, main has returned 2,
\* no temporary file was written, the program was never invoked and the master
\* CSV is what it was
C3_ValidationReturns2 ==
    (pc # "idle" /\ (~exe_exists \/ ~cfg_exists \/ runs <= 0)) =>
        /\ pc = "done"
        /\ exit_code = << ExitUsage >>
        /\ written = {} /\ tmpdir = {}
        /\ spawned = <<>>
        /\ master = master0

\* C3 witness: --runs <= 0 with exe and config present, on an existing master CSV
C3_Witness ==
    /\ pc = "done"
    /\ exe_exists /\ cfg_exists /\ runs <= 0
    /\ master.exists

Failed(required) ==
    \/ last_run.exit \in { "nonzero", "timeout" }
    \/ ~(required \subseteq last_run.headers)
    \/ last_run.empty

\* the script has ended with an error, the failed run was the last one started,
\* each run was started once, and the failed run completed nothing
Aborted ==
    /\ pc = "done"
    /\ exit_code = << ExitUncaught >>
    /\ spawned = [ k \in 1..(last_run.run + 1) |-> k - 1 ]
    /\ Len(completed) = last_run.run

\* C4 as stated: a run whose program exits non-zero or times out, or whose result
\* CSV lacks experiment, fitness or eval_time_ms or is empty, ends the script with
\* an error, and no run is started after it
C4_FatalThreeColumns ==
    (last_run.run >= 0 /\ Failed({ "experiment", "fitness", "eval_time_ms" })) => Aborted

\* C4 amended: the same, the required columns being fitness and eval_time_ms (a
\* result CSV that lacks only the experiment column is accepted)
C4_FatalTwoColumns ==
    (last_run.run >= 0 /\ Failed({ "fitness", "eval_time_ms" })) => Aborted

\* C4 witness: the second run timed out after the first one succeeded
C4_Witness ==
    /\ last_run.run = 1
    /\ last_run.exit = "timeout"
    /\ last_run.headers = Columns
    /\ Len(completed) = 1

\* C8: when the script has ended, no temporary file is left
C8_TempFilesRemoved == pc = "done" => tmpdir = {}

\* C8 witness: the script ended with an error in its second run, after both
\* runs' temporary files had been created
C8_Witness ==
    /\ pc = "done"
    /\ exit_code = << ExitUncaught >>
    /\ { CfgFile(0), CsvFile(0), CfgFile(1), CsvFile(1) } \subseteq written

\* the eval_time_ms values the current invocation read, one per run
RunTimes == [ r \in 1..Len(completed) |-> completed[r].eval_time_ms ]

\* C9: after a successful invocation the runtime analytics are those of this
\* invocation's runs: runs = N, and average, min and max of its N eval_time_ms values
C9_TimesOfThisInvocation ==
    (pc = "done" /\ exit_code = << ExitOk >>) =>
        /\ time_stats.status = "ok"
        /\ time_stats.runs = runs
        /\ time_stats.avg_ms = Mean(RunTimes)
        /\ time_stats.min_ms = SeqMin(RunTimes)
        /\ time_stats.max_ms = SeqMax(RunTimes)

\* position in AppendedData before the rows of completed run r
RECURSIVE RowsBefore(_)
RowsBefore(r) == IF r <= 1 THEN 0
                 ELSE RowsBefore(r - 1) + Len(completed[r - 1].fitness_values)

\* C10: in every state of an invocation, the data rows it has appended are the
\* rows of its completed runs 0..i-1, in run order and experiment order, each
\* (run, experiment index from 0, fitness, eval_time_ms); a failed run adds none
C10_RowsOfCompletedRuns ==
    pc # "idle" =>
        /\ Len(completed) = run_id
        /\ Len(spawned) \in { run_id, run_id + 1 }
        /\ Len(AppendedData) = RowsBefore(Len(completed) + 1)
        /\ \A r \in 1..Len(completed) :
              /\ completed[r].run = r - 1
              /\ \A j \in 1..Len(completed[r].fitness_values) :
                    AppendedData[RowsBefore(r) + j] =
                        << FormatNum(r - 1), FormatNum(j - 1),
                           FormatNum(completed[r].fitness_values[j]),
                           FormatNum(completed[r].eval_time_ms) >>

\* C10 witness: the invocation aborted in its second run, after a first run of two
\* values, on a master CSV an earlier invocation left
C10_Witness ==
    /\ pc = "done" /\ exit_code = << ExitUncaught >>
    /\ Len(spawned) = 2 /\ Len(completed) = 1
    /\ Len(completed[1].fitness_values) = 2
    /\ master0.exists

====
